---- MODULE Spec2Model ----
(***************************************************************************)
(* Missing-page (404) handling of readthedocs/core/views/__init__.py:      *)
(* server_error_404, server_error_404_subdomain and its helper             *)
(* resolve_404_path.                                                       *)
(*                                                                         *)
(* Strings that are paths are sequences of tokens: "/" is the separator    *)
(* token and every other token is one path component, so that             *)
(* "/en/v1/404.html" is <<"/", "en", "/", "v1", "/", "404.html">>.         *)
(***************************************************************************)
EXTENDS Integers, Sequences, FiniteSets, TLC

VARIABLES
    project,        \* the Project record of slug "proj" (read by the handler)
    versions,       \* project.versions: slug -> privacy level, or None
    files,          \* content store: the paths that are regular files
    dirs,           \* content store: the paths that are directories
    redirects,      \* the redirect rules of the project
    pc,             \* position of the handler in the request being handled
    request,        \* the request being handled
    response,       \* `response` / `r` of the handler: the response it builds
    proj,           \* `project` of server_error_404_subdomain (line 187)
    language,       \* `language` of server_error_404_subdomain
    version_slug,   \* `version_slug` of server_error_404_subdomain
    idx,            \* position of the nested for loops (lines 199-200), 1..4
    slug,           \* loop variable `slug` of the last iteration
    tryfile,        \* loop variable `tryfile` of the last iteration
    resolved,       \* (basepath, filename, fullpath) of the last resolve_404_path
    probes,         \* history: the full paths given to os.path.exists, in order
    warnings,       \* history: infinite-redirect warnings logged for the request
    classified,     \* history: project_and_path_from_request was called
    failed,         \* history: the loop positions whose existence check failed
                    \* because the content store could not be reached
    outcome,        \* terminal outcome of the handler for the request
    other,          \* a second request, handled at the same time: the
                    \* position and local variables of its handler
    wipe            \* the last call of wipe_version: its arguments, its
                    \* result and the wipes it triggered

env == <<project, versions, files, dirs, redirects>>
locals == <<proj, language, version_slug, idx, slug, tryfile, resolved>>
history == <<probes, warnings, classified, failed>>
outside == <<other, wipe>>
vars == <<project, versions, files, dirs, redirects, pc, request, response, proj,
          language, version_slug, idx, slug, tryfile, resolved, probes, warnings,
          classified, failed, outcome, other, wipe>>

(***************************************************************************)
(* Bounds and small input sets                                             *)
(***************************************************************************)
\* at most this many entries (files and directories) on the content store
MaxStoreSize == 2

None == "None"
PRIVATE == "private"
PUBLIC == "public"
LATEST == "latest"
ProjectSlug == "proj"
Host == "proj.readthedocs.io"

VersionSlugs == {"v1", LATEST}

\* Python's None where a record is expected
NoResponse == [kind |-> None]
NoProject == [slug |-> None]
NoRequest == [full_path |-> <<>>]
NoPath == <<>>

\* no second request, no call of wipe_version
IdleHandler ==
    [pc |-> "idle", request |-> NoRequest, response |-> NoResponse,
     proj |-> NoProject, language |-> None, version_slug |-> None, idx |-> 0,
     resolved |-> <<NoPath, NoPath, NoPath>>, probes |-> <<>>,
     outcome |-> "none"]
NoWipe == [result |-> None]

F404 == <<"404.html">>
F404Index == <<"404", "/", "index.html">>

\* '/en/v1/missing/', '/en/latest/missing/?q' and '/missing/'
PathV1 == <<"/", "en", "/", "v1", "/", "missing", "/">>
PathLatest == <<"/", "en", "/", LATEST, "/", "missing", "/", "?", "q">>
PathNoVersion == <<"/", "missing", "/">>
PathNew == <<"/", "new", "/">>
RequestPaths == {PathV1, PathLatest, PathNoVersion}
\* '/docs/proj/en/v1/missing/': the project named in the path, no virtual host
PathDocs == <<"/", "docs", "/", ProjectSlug>> \o PathV1

\* A request carries the subdomain marker or the cname marker together with
\* the slug its host names ("ghost" names no project), or none of the three.
Requests ==
    [full_path : RequestPaths, subdomain : {TRUE}, cname : {FALSE},
     slug : {ProjectSlug, "ghost"}]
    \cup [full_path : RequestPaths, subdomain : {FALSE}, cname : {TRUE},
          slug : {ProjectSlug, "ghost"}]
    \cup [full_path : RequestPaths \cup {PathDocs}, subdomain : {FALSE},
          cname : {FALSE}, slug : {None}]

(***************************************************************************)
(* Collaborators of the handler                                            *)
(***************************************************************************)
\* request.build_absolute_uri(): scheme and host in front of the full path
build_absolute_uri(req) == <<"http://", Host>> \o req.full_path

\* urlparse(full_path)[2]: the path component, up to the query
RECURSIVE urlparse_path(_)
urlparse_path(s) ==
    IF s = <<>> \/ Head(s) = "?" THEN <<>>
    ELSE <<Head(s)>> \o urlparse_path(Tail(s))

\* language_and_version_from_path: the first two path segments, when the
\* path has the shape /<language>/<version>/...
language_and_version_from_path(path) ==
    IF /\ Len(path) >= 5
       /\ path[1] = "/" /\ path[2] # "/" /\ path[3] = "/"
       /\ path[4] # "/" /\ path[5] = "/"
    THEN <<path[2], path[4], SubSeq(path, 6, Len(path))>>
    ELSE <<None, None, path>>

\* project_and_path_from_request: the project the request's slug names or,
\* for a request without slug, the project a path /docs/<slug>/... names,
\* with the rest of the path
project_and_path_from_request(req, full_path) ==
    IF req.slug # None
    THEN IF req.slug = project.slug
         THEN <<project, full_path>> ELSE <<NoProject, None>>
    ELSE IF /\ Len(full_path) >= 5
            /\ SubSeq(full_path, 1, 3) = <<"/", "docs", "/">>
            /\ full_path[4] = project.slug /\ full_path[5] = "/"
         THEN <<project, SubSeq(full_path, 5, Len(full_path))>>
         ELSE <<NoProject, None>>

\* get_redirect_response: the response of the rule matching the path
get_redirect_response(req, full_path) ==
    IF \E r \in redirects : r.from_path = urlparse_path(full_path)
    THEN LET r == CHOOSE r \in redirects : r.from_path = urlparse_path(full_path)
         IN  [kind |-> "redirect", url |-> r.to_url, status_code |-> r.http_status]
    ELSE NoResponse

\* resolve_path(..., subdomain=True): the path without URL prefix; a
\* single-version project has no language and version segments, absent
\* language and version take the project's own
resolve_path(p, vslug, lang, filename) ==
    IF p.single_version THEN <<"/">> \o filename
    ELSE <<"/", IF lang = None THEN p.language ELSE lang,
           "/", IF vslug = None THEN p.default_version ELSE vslug, "/">>
         \o filename

\* PrivateSymlink(project).project_root and PublicSymlink(project).project_root
PrivateRoot(p) == <<"/", "private_web_root", "/", p.slug>>
PublicRoot(p) == <<"/", "public_web_root", "/", p.slug>>

\* the two strings put one after the other
os_path_join_Concat(a, b) == a \o b

\* os.path.join(a, b)
os_path_join(a, b) ==
    IF b # <<>> /\ Head(b) = "/" THEN b
    ELSE IF a = <<>> \/ a[Len(a)] = "/" THEN a \o b
    ELSE a \o <<"/">> \o b

\* a truthiness test of the path instead of the existence check
os_path_exists_Always(path) == path # <<>>

\* os.path.exists(path): true of files and of directories
os_path_exists(path) == path \in files \cup dirs

\* str.lstrip('/')
RECURSIVE lstrip_sep(_)
lstrip_sep(s) ==
    IF s # <<>> /\ Head(s) = "/" THEN lstrip_sep(Tail(s)) ELSE s

\* django.views.static.serve(request, path, document_root): the response
\* for the file document_root/path.lstrip('/'), or Http404 when that path
\* is a directory or does not exist
static_serve(path, document_root) ==
    LET fullpath == os_path_join(document_root, lstrip_sep(path))
    IN  IF fullpath \in files
        THEN [kind |-> "static", path |-> fullpath, status_code |-> 200]
        ELSE [kind |-> "Http404"]

\* render(request, template_name)
render(template_name) ==
    [kind |-> "template", template |-> template_name, status_code |-> 200]

(***************************************************************************)
(* resolve_404_path (lines 147-185)                                        *)
(***************************************************************************)
\* the leading separator left in place
StripLeadingSeparator_None(filename) == filename

\* lines 166-167: drop one leading separator
StripLeadingSeparator(filename) ==
    IF Head(filename) = "/" THEN Tail(filename) ELSE filename

\* lines 169-173: the version record of the slug, None when the slug is
\* absent or names no version of the project
VersionRecord(vslug) ==
    IF vslug # None /\ vslug \in DOMAIN versions /\ versions[vslug] # None
    THEN [slug |-> vslug, privacy_level |-> versions[vslug]]
    ELSE [slug |-> None, privacy_level |-> None]

\* private as soon as either the version or the project is private
IsPrivate_Any(version, p) ==
    \/ version.slug # None /\ version.privacy_level = PRIVATE
    \/ p.privacy_level = PRIVATE

\* no fall-back to the project's privacy level
IsPrivate_NoFallback(version, p) ==
    version.slug # None /\ version.privacy_level = PRIVATE

\* lines 175-178
IsPrivate(version, p) ==
    \/ version.slug # None /\ version.privacy_level = PRIVATE
    \/ version.slug = None /\ p.privacy_level = PRIVATE

\* lines 179-183
ProjectRoot(version, p) ==
    IF IsPrivate(version, p) THEN PrivateRoot(p) ELSE PublicRoot(p)

resolve_404_path(p, vslug, lang, fname) ==
    LET filename == StripLeadingSeparator(resolve_path(p, vslug, lang, fname))
        basepath == ProjectRoot(VersionRecord(vslug), p)
        fullpath == os_path_join(basepath, filename)
    IN  <<basepath, filename, fullpath>>

\* a third version, "latest", tried after the default version
Candidates_ExtraVersion(vslug, p) ==
    << <<vslug, F404>>, <<vslug, F404Index>>,
       <<p.default_version, F404>>, <<p.default_version, F404Index>>,
       <<LATEST, F404>>, <<LATEST, F404Index>> >>

\* the default version tried before the request's version
Candidates_DefaultFirst(vslug, p) ==
    << <<p.default_version, F404>>, <<p.default_version, F404Index>>,
       <<vslug, F404>>, <<vslug, F404Index>> >>

\* lines 199-200: the nested loops, in iteration order
Candidates(vslug, p) ==
    << <<vslug, F404>>, <<vslug, F404Index>>,
       <<p.default_version, F404>>, <<p.default_version, F404Index>> >>

\* a miss that ends the search
LoopStep_StopOnMiss(found, i, n) ==
    IF found THEN <<"serve", i>> ELSE <<"default", i>>

\* a hit that does not leave the loops: the last candidate decides
LoopStep_NoReturn(found, i, n) ==
    IF i < n THEN <<"probe", i + 1>>
    ELSE IF found THEN <<"serve", i>>
    ELSE <<"default", i>>

\* lines 199-210: where the loops go after the existence check of candidate
\* i of n: to the serve on a hit, else to the next candidate, else past the
\* loops
LoopStep(found, i, n) ==
    IF found THEN <<"serve", i>>
    ELSE IF i < n THEN <<"probe", i + 1>>
    ELSE <<"default", i>>

\* the status code left as the collaborator set it
Status404_Unset(r) == r

\* lines 133, 209, 214: r.status_code = 404
Status404(r) == [r EXCEPT !.status_code = 404]

(***************************************************************************)
(* Initial states                                                          *)
(***************************************************************************)
Projects ==
    [slug : {ProjectSlug}, privacy_level : {PUBLIC, PRIVATE},
     single_version : BOOLEAN, default_version : {LATEST}, language : {"en"}]

\* the custom 404 pages a build of the project can put under either root:
\* <root>/404.html for a single-version project, <root>/en/<version>/404.html
\* otherwise, and the same for 404/index.html
StorePaths(p) ==
    { root \o <<"/">> \o
        (IF p.single_version THEN <<>> ELSE <<"en", "/", v, "/">>) \o f :
        root \in { <<"/", "private_web_root", "/", p.slug>>,
                   <<"/", "public_web_root", "/", p.slug>> },
        v \in VersionSlugs, f \in {F404, F404Index} }

\* '/en/v1/missing/' redirected to itself, '/en/latest/missing/' to '/new/'
RuleSelf ==
    [from_path |-> PathV1, to_url |-> <<"http://", Host>> \o PathV1,
     http_status |-> 302]
RuleOther ==
    [from_path |-> urlparse_path(PathLatest),
     to_url |-> <<"http://", Host>> \o PathNew, http_status |-> 301]

Init ==
    /\ project \in Projects
    /\ versions \in [VersionSlugs -> {None, PUBLIC, PRIVATE}]
    /\ versions[project.default_version] # None
    /\ files \in SUBSET StorePaths(project)
    /\ dirs \in SUBSET StorePaths(project)
    /\ files \cap dirs = {}
    /\ Cardinality(files \cup dirs) <= MaxStoreSize
    /\ redirects \in {{}, {RuleSelf, RuleOther}}
    /\ pc = "idle"
    /\ request = NoRequest
    /\ response = NoResponse
    /\ proj = NoProject
    /\ language = None
    /\ version_slug = None
    /\ idx = 0
    /\ slug = None
    /\ tryfile = NoPath
    /\ resolved = <<NoPath, NoPath, NoPath>>
    /\ probes = <<>>
    /\ warnings = 0
    /\ classified = FALSE
    /\ failed = {}
    /\ outcome = "none"
    /\ other = IdleHandler
    /\ wipe = NoWipe

(***************************************************************************)
(* The handler                                                             *)
(***************************************************************************)
\* a request reaches handler404
Receive(req) ==
    /\ pc \in {"idle", "done"}
    /\ pc' = "start"
    /\ request' = req
    /\ response' = NoResponse
    /\ proj' = NoProject
    /\ language' = None
    /\ version_slug' = None
    /\ idx' = 0
    /\ slug' = None
    /\ tryfile' = NoPath
    /\ resolved' = <<NoPath, NoPath, NoPath>>
    /\ probes' = <<>>
    /\ warnings' = 0
    /\ classified' = FALSE
    /\ failed' = {}
    /\ outcome' = "none"
    /\ UNCHANGED <<env, outside>>

\* the comparison with the request's URL never true, always true
IsInfiniteRedirect_Never(resp, req) == resp.url = req.full_path
IsInfiniteRedirect_Always(resp, req) == resp.url # <<>>

\* line 118
IsInfiniteRedirect(resp, req) == resp.url = build_absolute_uri(req)

\* server_error_404, lines 114-125
RedirectLookup ==
    /\ pc = "start"
    /\ LET resp == get_redirect_response(request, request.full_path)
       IN  /\ response' = resp
           /\ IF resp.kind # None
              THEN IF IsInfiniteRedirect(resp, request)
                   THEN /\ warnings' = warnings + 1
                        /\ pc' = "vhost"
                        /\ UNCHANGED outcome
                   ELSE /\ outcome' = "REDIRECTED"
                        /\ pc' = "done"
                        /\ UNCHANGED warnings
              ELSE /\ pc' = "vhost"
                   /\ UNCHANGED <<warnings, outcome>>
    /\ UNCHANGED <<env, outside, request, locals, probes, classified, failed>>

\* the custom page search entered for every request
IsVhost_Always(req) == req.full_path # <<>>

\* line 128
IsVhost(req) == req.subdomain \/ req.cname

\* server_error_404, lines 127-134
CheckVhost ==
    /\ pc = "vhost"
    /\ IF IsVhost(request)
       THEN /\ pc' = "classify"
            /\ UNCHANGED <<response, outcome>>
       ELSE /\ response' = Status404(render("404.html"))
            /\ outcome' = "DEFAULT_404"
            /\ pc' = "done"
    /\ UNCHANGED <<env, outside, request, locals, history>>

\* the path decomposed for every project
LanguageAndVersion_Always(p, path) ==
    LET lv == language_and_version_from_path(path) IN <<lv[1], lv[2]>>

\* lines 190-194: language and version_slug, taken from the path unless the
\* project is single_version
LanguageAndVersion(p, path) ==
    IF ~p.single_version
    THEN LET lv == language_and_version_from_path(path) IN <<lv[1], lv[2]>>
    ELSE <<None, None>>

\* server_error_404_subdomain, lines 187-194
Classify ==
    /\ pc = "classify"
    /\ LET found == project_and_path_from_request(request, request.full_path)
       IN  /\ proj' = found[1]
           /\ classified' = TRUE
           /\ IF found[1].slug # None
              THEN LET path == urlparse_path(found[2])
                       lv == LanguageAndVersion(found[1], path)
                   IN  /\ language' = lv[1]
                       /\ version_slug' = lv[2]
                       /\ idx' = 1
                       /\ pc' = "probe"
              ELSE /\ pc' = "default"
                   /\ UNCHANGED <<language, version_slug, idx>>
    /\ UNCHANGED <<env, outside, request, response, slug, tryfile, resolved, probes,
                   warnings, failed, outcome>>

\* the version record created when the slug names none (get_or_create in
\* the place of filter)
ProbeStep_GetOrCreate(reachable) ==
    /\ pc = "probe"
    /\ LET c == Candidates(version_slug, proj)[idx]
           r == resolve_404_path(proj, c[1], language, c[2])
       IN  /\ resolved' = r
           /\ probes' = Append(probes, r[3])
           /\ slug' = c[1]
           /\ tryfile' = c[2]
           /\ versions' =
                  IF c[1] \in DOMAIN versions /\ versions[c[1]] = None
                  THEN [versions EXCEPT ![c[1]] = PUBLIC] ELSE versions
           /\ LET step == LoopStep(reachable /\ os_path_exists(r[3]), idx,
                                   Len(Candidates(version_slug, proj)))
              IN  pc' = step[1] /\ idx' = step[2]
    /\ UNCHANGED <<project, files, dirs, redirects, request, response, proj,
                   language, version_slug, warnings, classified, outcome,
                   outside>>

\* server_error_404_subdomain, lines 199-202: one iteration of the loops up
\* to the existence check; os.path.exists answers False when the content
\* store cannot be reached (os.stat raises OSError)
ProbeStep(reachable) ==
    /\ pc = "probe"
    /\ LET c == Candidates(version_slug, proj)[idx]
           r == resolve_404_path(proj, c[1], language, c[2])
       IN  /\ resolved' = r
           /\ probes' = Append(probes, r[3])
           /\ slug' = c[1]
           /\ tryfile' = c[2]
           /\ LET step == LoopStep(reachable /\ os_path_exists(r[3]), idx,
                                   Len(Candidates(version_slug, proj)))
              IN  pc' = step[1] /\ idx' = step[2]
    /\ UNCHANGED <<env, outside, request, response, proj, language, version_slug,
                   warnings, classified, outcome>>

Probe == ProbeStep(TRUE) /\ UNCHANGED failed

\* the existence check of a candidate that is on the content store fails
\* (for a candidate that is not, the failed check answers as the check does)
ProbeUnavailable ==
    /\ pc = "probe"
    /\ LET c == Candidates(version_slug, proj)[idx]
       IN  os_path_exists(resolve_404_path(proj, c[1], language, c[2])[3])
    /\ ProbeStep(FALSE)
    /\ failed' = failed \cup {idx}

\* server_error_404_subdomain, lines 208-210
Serve ==
    /\ pc = "serve"
    /\ LET r == static_serve(resolved[2], resolved[1])
       IN  IF r.kind = "Http404"
           THEN /\ response' = NoResponse
                /\ outcome' = "EXCEPTION"
           ELSE /\ response' = Status404(r)
                /\ outcome' = "CUSTOM_404"
    /\ pc' = "done"
    /\ UNCHANGED <<env, outside, request, locals, history>>

\* server_error_404_subdomain, lines 212-215
RenderDefault ==
    /\ pc = "default"
    /\ response' = Status404(render("404.html"))
    /\ outcome' = "DEFAULT_404"
    /\ pc' = "done"
    /\ UNCHANGED <<env, outside, request, locals, history>>

Next ==
    \/ \E req \in Requests : Receive(req)
    \/ RedirectLookup
    \/ CheckVhost
    \/ Classify
    \/ Probe
    \/ Serve
    \/ RenderDefault

Spec == Init /\ [][Next]_vars

(***************************************************************************)
(* A second request handled at the same time (another worker thread): the  *)
(* same handler, its position and local variables in the record `other`.   *)
(***************************************************************************)
\* one step of server_error_404 / server_error_404_subdomain from the
\* handler state h (lines 114-125, 127-134, 187-194, 199-202, 208-210,
\* 212-215)
HandlerStep(h) ==
    CASE h.pc = "start" ->
           LET resp == get_redirect_response(h.request, h.request.full_path)
           IN  IF resp.kind # None /\ ~IsInfiniteRedirect(resp, h.request)
               THEN [h EXCEPT !.response = resp, !.outcome = "REDIRECTED",
                              !.pc = "done"]
               ELSE [h EXCEPT !.response = resp, !.pc = "vhost"]
      [] h.pc = "vhost" ->
           IF IsVhost(h.request)
           THEN [h EXCEPT !.pc = "classify"]
           ELSE [h EXCEPT !.response = Status404(render("404.html")),
                          !.outcome = "DEFAULT_404", !.pc = "done"]
      [] h.pc = "classify" ->
           LET found == project_and_path_from_request(h.request,
                                                      h.request.full_path)
           IN  IF found[1].slug # None
               THEN LET lv == LanguageAndVersion(found[1],
                                                 urlparse_path(found[2]))
                    IN  [h EXCEPT !.proj = found[1], !.language = lv[1],
                                  !.version_slug = lv[2], !.idx = 1,
                                  !.pc = "probe"]
               ELSE [h EXCEPT !.proj = found[1], !.pc = "default"]
      [] h.pc = "probe" ->
           LET c == Candidates(h.version_slug, h.proj)[h.idx]
               r == resolve_404_path(h.proj, c[1], h.language, c[2])
               step == LoopStep(os_path_exists(r[3]), h.idx,
                                Len(Candidates(h.version_slug, h.proj)))
           IN  [h EXCEPT !.resolved = r, !.probes = Append(@, r[3]),
                         !.pc = step[1], !.idx = step[2]]
      [] h.pc = "serve" ->
           LET r == static_serve(h.resolved[2], h.resolved[1])
           IN  IF r.kind = "Http404"
               THEN [h EXCEPT !.response = NoResponse,
                              !.outcome = "EXCEPTION", !.pc = "done"]
               ELSE [h EXCEPT !.response = Status404(r),
                              !.outcome = "CUSTOM_404", !.pc = "done"]
      [] h.pc = "default" ->
           [h EXCEPT !.response = Status404(render("404.html")),
                     !.outcome = "DEFAULT_404", !.pc = "done"]

\* the second request reaches handler404
OtherReceive(req) ==
    /\ other.pc = "idle"
    /\ other' = [IdleHandler EXCEPT !.pc = "start", !.request = req]
    /\ UNCHANGED <<env, pc, request, response, locals, history, outcome, wipe>>

\* language and version_slug kept where every request sees them (module
\* level variables): the second handler reads those of the first
OtherStep_SharedLocals ==
    /\ other.pc \notin {"idle", "done"}
    /\ other' =
          HandlerStep(IF other.pc = "probe" /\ pc \in {"probe", "serve", "done"}
                         /\ proj.slug # None
                      THEN [other EXCEPT !.language = language,
                                         !.version_slug = version_slug]
                      ELSE other)
    /\ UNCHANGED <<env, pc, request, response, locals, history, outcome, wipe>>

\* one step of the handler of the second request
OtherStep ==
    /\ other.pc \notin {"idle", "done"}
    /\ other' = HandlerStep(other)
    /\ UNCHANGED <<env, pc, request, response, locals, history, outcome, wipe>>

\* the second request: one of a virtual host of the project
OtherRequests ==
    [full_path : RequestPaths, subdomain : {TRUE}, cname : {FALSE},
     slug : {ProjectSlug}]

\* both requests over the stores of a public project with versions
InitConcurrent ==
    /\ Init
    /\ ~project.single_version /\ project.privacy_level = PUBLIC
    /\ versions[LATEST] = PUBLIC
    /\ dirs = {}
    /\ redirects # {}
NextConcurrent ==
    \/ Next
    \/ \E req \in OtherRequests : OtherReceive(req)
    \/ OtherStep
SpecConcurrent == InitConcurrent /\ [][NextConcurrent]_vars

(***************************************************************************)
(* wipe_version (lines 75-96)                                              *)
(***************************************************************************)
\* a user is known by the projects Project.objects.for_admin_user gives
Users == [name : {"ann"}, admin_of : {{}, {ProjectSlug}}]
for_admin_user(user) == user.admin_of

\* lines 76-80: get_object_or_404(Version, project__slug=..., slug=...):
\* the version, or a record without slug when Http404 is raised
get_version_or_404(project_slug, vslug) ==
    IF /\ project_slug = project.slug
       /\ vslug \in DOMAIN versions /\ versions[vslug] # None
    THEN [slug |-> vslug, project |-> project_slug]
    ELSE [slug |-> None, project |-> None]

\* the wipe open to every user
IsProjectAdmin_Anyone(project_slug, user) == user.name # None

\* line 83: version.project among the projects the user administers
IsProjectAdmin(project_slug, user) == project_slug \in for_admin_user(user)

\* the wipe done whatever the method
IsPost_Always(method) == method \in {"GET", "POST"}

\* line 86
IsPost(method) == method = "POST"

\* wipe_version(request, project_slug, version_slug), the whole view
WipeVersion(user, method, project_slug, vslug) ==
    /\ LET version == get_version_or_404(project_slug, vslug)
           call == [user |-> user, method |-> method,
                    project_slug |-> project_slug, version_slug |-> vslug]
       IN  wipe' =
             IF version.slug = None
             THEN [call |-> call, result |-> "Http404", wiped |-> <<>>]
             ELSE IF ~IsProjectAdmin(version.project, user)
             THEN [call |-> call, result |-> "Http404", wiped |-> <<>>]
             ELSE IF IsPost(method)
             THEN [call |-> call, result |-> "redirect",
                   wiped |-> <<[version_slug |-> vslug,
                                project_slug |-> project_slug]>>]
             ELSE [call |-> call, result |-> "render", wiped |-> <<>>]
    /\ UNCHANGED <<env, pc, request, response, locals, history, outcome, other>>

InitWipe == Init /\ files = {} /\ dirs = {} /\ redirects = {}
NextWipe ==
    \E user \in Users, method \in {"GET", "POST"},
       project_slug \in {ProjectSlug, "ghost"},
       vslug \in VersionSlugs \cup {"v9"} :
        WipeVersion(user, method, project_slug, vslug)
SpecWipe == InitWipe /\ [][NextWipe]_vars

\* the handler over a content store whose existence checks can fail
InitTransient == Init /\ redirects = {}
NextTransient == Next \/ ProbeUnavailable
SpecTransient == InitTransient /\ [][NextTransient]_vars

(***************************************************************************)
(* Properties                                                              *)
(***************************************************************************)
\* the redirect lookup of the request has run
LookedUp == pc \notin {"idle", "start"}

\* the rule store answers the request with a redirect to the request's own
\* absolute URL / to another URL
AbsoluteUrl == <<"http://", Host>> \o request.full_path
RuleResponse == get_redirect_response(request, request.full_path)
SelfRedirect == RuleResponse.kind # None /\ RuleResponse.url = AbsoluteUrl
OtherRedirect == RuleResponse.kind # None /\ RuleResponse.url # AbsoluteUrl

\* C1: a redirect whose target is the request's absolute URL is not
\* returned and logs exactly one infinite-redirect warning; in every other
\* case no infinite-redirect warning is logged.
C1_InfiniteRedirectLogged ==
    IF LookedUp /\ SelfRedirect
    THEN /\ warnings = 1
         /\ outcome # "REDIRECTED"
         /\ pc = "done" => response.kind # "redirect"
    ELSE warnings = 0

C1_Witness ==
    /\ pc = "done" /\ SelfRedirect
    /\ warnings = 1 /\ outcome = "CUSTOM_404"

\* C2: a redirect whose target differs from the request's absolute URL is
\* returned as it is, for every kind of request, before any project
\* classification and before any existence check.
C2_RedirectReturnedFirst ==
    LookedUp /\ OtherRedirect =>
        /\ pc = "done"
        /\ outcome = "REDIRECTED"
        /\ response = RuleResponse
        /\ ~classified
        /\ probes = <<>>

C2_Witness ==
    /\ pc = "done" /\ OtherRedirect /\ outcome = "REDIRECTED"
    /\ request.subdomain /\ request.slug = project.slug
    /\ response.url = <<"http://", Host>> \o PathNew
    /\ files # {}

\* the four candidates of the request in the documented order, and the full
\* path of the k-th
OrderedCandidates ==
    << <<version_slug, F404>>, <<version_slug, F404Index>>,
       <<project.default_version, F404>>,
       <<project.default_version, F404Index>> >>
CandidatePath(k) ==
    resolve_404_path(project, OrderedCandidates[k][1], language,
                     OrderedCandidates[k][2])[3]
OnStore(path) == path \in files \cup dirs

\* C3: the page served is the first candidate, in the order (request
\* version, 404.html), (request version, 404/index.html), (default
\* version, 404.html), (default version, 404/index.html), that exists on the
\* content store: no earlier candidate exists.
C3_FirstExistingServed ==
    outcome = "CUSTOM_404" =>
        \E k \in 1..4 :
            /\ response.path = CandidatePath(k)
            /\ \A j \in 1..(k - 1) : ~OnStore(CandidatePath(j))

C3_Witness ==
    /\ outcome = "CUSTOM_404"
    /\ response.path = CandidatePath(2)
    /\ CandidatePath(3) \in files
    /\ CandidatePath(3) # CandidatePath(2)
    /\ ~OnStore(CandidatePath(1))

\* C4: the search stops at the first hit: an existence check that succeeded
\* is the last one of the request.
C4_StopsAtFirstHit ==
    \A i \in 1..Len(probes) : OnStore(probes[i]) => i = Len(probes)

C4_Witness ==
    /\ pc = "done" /\ outcome = "CUSTOM_404"
    /\ version_slug = "v1"
    /\ probes = <<CandidatePath(1), CandidatePath(2)>>
    /\ CandidatePath(4) \in files

\* a candidate has been resolved in this request
Resolved == resolved[3] # NoPath
HasVersionRecord(vslug) ==
    vslug # None /\ vslug \in DOMAIN versions /\ versions[vslug] # None
RootOf(privacy) ==
    IF privacy = PRIVATE THEN PrivateRoot(project) ELSE PublicRoot(project)

\* C5: when the candidate's version slug names a version of the project,
\* the version's privacy level alone selects the root.
C5_VersionPrivacySelectsRoot ==
    Resolved /\ HasVersionRecord(slug) => resolved[1] = RootOf(versions[slug])

C5_Witness ==
    /\ Resolved /\ HasVersionRecord(slug)
    /\ versions[slug] = PRIVATE /\ project.privacy_level = PUBLIC
    /\ resolved[1] = PrivateRoot(project)
    /\ resolved[3] \in files

\* C6: when the candidate's version slug is absent or names no version of
\* the project, the project's privacy level selects the root, and the
\* candidate is probed all the same: every iteration of the loops issues
\* its existence check.
C6_ProjectPrivacyFallback ==
    /\ Resolved /\ ~HasVersionRecord(slug) =>
           /\ resolved[1] = RootOf(project.privacy_level)
           /\ probes # <<>>
           /\ probes[Len(probes)] = resolved[3]
    /\ pc = "probe" => Len(probes) = idx - 1
    /\ pc \in {"serve", "default"} /\ proj.slug # None => Len(probes) = idx

C6_Witness ==
    /\ Resolved /\ slug = "v1" /\ versions["v1"] = None
    /\ project.privacy_level = PRIVATE
    /\ resolved[1] = PrivateRoot(project)
    /\ probes[Len(probes)] \in files

\* the root of the effective privacy of the last candidate, and the other
EffectivePrivacy ==
    IF HasVersionRecord(slug) THEN versions[slug] ELSE project.privacy_level
EffectiveRoot == RootOf(EffectivePrivacy)
OtherRoot ==
    IF EffectivePrivacy = PRIVATE
    THEN PublicRoot(project) ELSE PrivateRoot(project)

\* C7: the file served is the file whose existence was checked: the checked
\* path is the root of the candidate's effective privacy, a separator and
\* the relative path, the relative path does not begin with a separator,
\* and the serve call gets that root and that relative path.
C7_ServedIsProbed ==
    /\ Resolved =>
           /\ resolved[1] = EffectiveRoot
           /\ resolved[2] # <<>> /\ Head(resolved[2]) # "/"
           /\ resolved[3] = EffectiveRoot \o <<"/">> \o resolved[2]
           /\ probes[Len(probes)] = resolved[3]
           /\ probes[Len(probes)] # OtherRoot \o <<"/">> \o resolved[2]
    /\ outcome = "CUSTOM_404" =>
           /\ response.path = probes[Len(probes)]
           /\ response.path = EffectiveRoot \o <<"/">> \o resolved[2]

C7_Witness ==
    /\ outcome = "CUSTOM_404"
    /\ EffectivePrivacy = PRIVATE
    /\ response.path = PrivateRoot(project) \o <<"/">> \o resolved[2]
    /\ PublicRoot(project) \o <<"/">> \o resolved[2] \in files

\* C8: the handler always ends in one of REDIRECTED, CUSTOM_404 and
\* DEFAULT_404: no exception escapes it.
C8_NoExceptionEscapes ==
    pc = "done" => outcome \in {"REDIRECTED", "CUSTOM_404", "DEFAULT_404"}

\* C9: a virtual-host request of an existing project with no applicable
\* redirect and none of the four candidates on the content store gets the
\* default 404 template with status 404.
C9_Case ==
    /\ pc = "done"
    /\ request.subdomain \/ request.cname
    /\ request.slug = project.slug
    /\ ~OtherRedirect
    /\ \A k \in 1..4 : ~OnStore(CandidatePath(k))

C9_DefaultWhenNoCandidate ==
    C9_Case =>
        /\ outcome = "DEFAULT_404"
        /\ response =
               [kind |-> "template", template |-> "404.html", status_code |-> 404]

C9_Witness ==
    /\ C9_Case /\ outcome = "DEFAULT_404"
    /\ Len(probes) = 4 /\ files # {}
    /\ response.status_code = 404

\* C10: every response that is not a returned redirect has status code 404.
C10_Status404 ==
    pc = "done" /\ response.kind \notin {None, "redirect"} =>
        response.status_code = 404

C10_Witness ==
    /\ pc = "done" /\ outcome = "CUSTOM_404"
    /\ response.kind = "static" /\ response.status_code = 404

\* the request has no project context: it carries neither marker, or the
\* slug of its virtual host names no project
NoProjectContext ==
    \/ ~request.subdomain /\ ~request.cname
    \/ request.slug # project.slug
DefaultResponse ==
    [kind |-> "template", template |-> "404.html", status_code |-> 404]

\* C11 as stated: a request without project context gets the default 404
\* and causes no existence check.
C11_DefaultWithoutContext ==
    pc = "done" /\ NoProjectContext =>
        outcome = "DEFAULT_404" /\ response = DefaultResponse /\ probes = <<>>

\* C11, amended: a request without project context causes no existence
\* check, and unless a redirect rule with another target applies to it, it
\* gets the default 404.
C11_NoSearchWithoutContext ==
    /\ LookedUp /\ NoProjectContext => probes = <<>>
    /\ pc = "done" /\ NoProjectContext /\ ~OtherRedirect =>
           outcome = "DEFAULT_404" /\ response = DefaultResponse

C11_Witness ==
    /\ pc = "done" /\ request.full_path = PathDocs
    /\ outcome = "DEFAULT_404" /\ probes = <<>>
    /\ PublicRoot(project) \o <<"/", "en", "/", "v1", "/">> \o F404 \in files
    /\ versions["v1"] = PUBLIC

\* the outcome and response of the candidate search from position k on, over
\* a store with the files F and the directories D, the positions in skip
\* answering as absent candidates do
RECURSIVE SearchFrom(_, _, _, _)
SearchFrom(k, F, D, skip) ==
    IF k > 4 THEN <<"DEFAULT_404", DefaultResponse>>
    ELSE IF k \notin skip /\ CandidatePath(k) \in F \cup D
    THEN IF CandidatePath(k) \in F
         THEN <<"CUSTOM_404",
                [kind |-> "static", path |-> CandidatePath(k),
                 status_code |-> 404]>>
         ELSE <<"EXCEPTION", NoResponse>>
    ELSE SearchFrom(k + 1, F, D, skip)

FailedPaths == { CandidatePath(k) : k \in failed }

\* C12 as stated: with failed existence checks the final outcome is the one
\* for a store on which the candidates of the failed checks do not exist
\* (stated of the requests that end with a response).
C12_AsIfAbsentFromStore ==
    pc = "done" /\ failed # {} /\ outcome # "EXCEPTION" =>
        <<outcome, response>> =
            SearchFrom(1, files \ FailedPaths, dirs \ FailedPaths, {})

\* C12, amended: a failed existence check answers as the check of an absent
\* candidate does: the search goes on with the next position, no position
\* is checked twice, and the final outcome is that of the search with the
\* failed positions answering absent.
C12_FailedCheckIsAMiss ==
    /\ \A i \in 1..Len(probes) : probes[i] = CandidatePath(i)
    /\ \A k \in failed :
           /\ k <= Len(probes)
           /\ pc = "done" /\ k < 4 => Len(probes) > k
    /\ pc = "done" /\ failed # {} =>
           <<outcome, response>> = SearchFrom(1, files, dirs, failed)

C12_Witness ==
    /\ pc = "done" /\ failed = {1}
    /\ outcome = "CUSTOM_404" /\ response.path = CandidatePath(3)
    /\ CandidatePath(3) # CandidatePath(1)

\* the project of the request was found and its path looked at
Decomposed == classified /\ proj.slug # None
\* language and version slug of the request paths, as written in them
PathLanguage ==
    IF request.full_path \in {PathV1, PathLatest} THEN "en" ELSE None
PathVersion ==
    IF request.full_path = PathV1 THEN "v1"
    ELSE IF request.full_path = PathLatest THEN LATEST ELSE None

\* C13: for a single_version project language and version slug stay absent,
\* the candidate versions are (none, default version) and every candidate
\* is resolved with language absent; otherwise both are taken from the
\* path.
C13_SingleVersionNotDecomposed ==
    Decomposed =>
        IF project.single_version
        THEN /\ language = None /\ version_slug = None
             /\ \A i \in 1..Len(probes) :
                    /\ i <= 2 =>
                         probes[i] = resolve_404_path(project, None, None,
                              IF i = 1 THEN F404 ELSE F404Index)[3]
                    /\ i >= 3 =>
                         probes[i] = resolve_404_path(project,
                              project.default_version, None,
                              IF i = 3 THEN F404 ELSE F404Index)[3]
        ELSE language = PathLanguage /\ version_slug = PathVersion

C13_Witness ==
    /\ Decomposed /\ project.single_version
    /\ request.full_path = PathV1
    /\ language = None /\ version_slug = None
    /\ Len(probes) = 4 /\ pc = "done"

\* full is a path below the directory base: base, a separator and a
\* relative path without a parent component
IsUnder(base, full) ==
    /\ Len(full) > Len(base) + 1
    /\ SubSeq(full, 1, Len(base)) = base
    /\ full[Len(base) + 1] = "/"
    /\ full[Len(base) + 2] # "/"
    /\ \A i \in (Len(base) + 2)..Len(full) : full[i] # ".."

C15_AtMostFourChecks ==
    /\ Len(probes) <= 4
    /\ idx <= 4
    /\ Len(probes) \in {idx - 1, idx} \/ probes = <<>>
    /\ \A i \in 1..Len(probes) : probes[i] = CandidatePath(i)

C15_Witness ==
    /\ pc = "done" /\ Len(probes) = 4
    /\ version_slug = project.default_version
    /\ probes[1] = probes[3] /\ probes[2] = probes[4]
    /\ files # {}

\* What a request gets when no redirect rule is looked at, as a function of
\* the request, the records and the content store alone: language and
\* version as written in the path, the candidates in order, the first one
\* on the store served (or raising, when it is a directory).
ReqLanguage(req) ==
    IF ~project.single_version /\ req.full_path \in {PathV1, PathLatest}
    THEN "en" ELSE None
ReqVersion(req) ==
    IF project.single_version THEN None
    ELSE IF req.full_path = PathV1 THEN "v1"
    ELSE IF req.full_path = PathLatest THEN LATEST ELSE None
ReqCandidatePath(req, k) ==
    resolve_404_path(project,
                     IF k <= 2 THEN ReqVersion(req) ELSE project.default_version,
                     ReqLanguage(req),
                     IF k \in {1, 3} THEN F404 ELSE F404Index)[3]
RECURSIVE ReqSearch(_, _)
ReqSearch(req, k) ==
    IF k > 4 THEN <<"DEFAULT_404", DefaultResponse>>
    ELSE IF ReqCandidatePath(req, k) \in files
    THEN <<"CUSTOM_404",
           [kind |-> "static", path |-> ReqCandidatePath(req, k),
            status_code |-> 404]>>
    ELSE IF ReqCandidatePath(req, k) \in dirs THEN <<"EXCEPTION", NoResponse>>
    ELSE ReqSearch(req, k + 1)
NoRuleOutcome(req) ==
    IF (req.subdomain \/ req.cname) /\ req.slug = project.slug
    THEN ReqSearch(req, 1)
    ELSE <<"DEFAULT_404", DefaultResponse>>

\* C16: a request whose rule redirects to the request's own URL ends as
\* the same request ends when no rule matches: both with the outcome and
\* response that the request, the records and the store determine without
\* the rules.
C16_SuppressedRedirectLikeNoRule ==
    pc = "done" /\ (SelfRedirect \/ RuleResponse.kind = None) =>
        <<outcome, response>> = NoRuleOutcome(request)

C16_Witness ==
    /\ pc = "done" /\ SelfRedirect /\ request.cname
    /\ outcome = "CUSTOM_404"
    /\ response.path = ReqCandidatePath(request, 2)
    /\ <<outcome, response>> = NoRuleOutcome(request)

\* C17: no step of the handler changes the Project and Version records, the
\* redirect rules or the content store.
C17_HandlerOnlyReads ==
    [][/\ project' = project /\ versions' = versions
       /\ redirects' = redirects
       /\ files' = files /\ dirs' = dirs]_vars

C17_Witness ==
    /\ pc = "done" /\ outcome = "CUSTOM_404"
    /\ version_slug = "v1" /\ versions["v1"] = None
    /\ response.path \in files
    /\ redirects # {} /\ warnings = 1

\* what a request gets when it is the only one: the redirect of its rule
\* when the target is another URL, else what it gets without the rules
AloneOutcome(req) ==
    LET resp == get_redirect_response(req, req.full_path)
    IN  IF resp.kind # None /\ resp.url # <<"http://", Host>> \o req.full_path
        THEN <<"REDIRECTED", resp>>
        ELSE NoRuleOutcome(req)

\* C18: with the steps of two requests interleaved in any order, each
\* request ends with the outcome and response it gets when handled alone.
C18_RequestsIndependent ==
    /\ pc = "done" => <<outcome, response>> = AloneOutcome(request)
    /\ other.pc = "done" =>
           <<other.outcome, other.response>> = AloneOutcome(other.request)

C18_Witness ==
    /\ pc = "serve" /\ other.pc = "done"
    /\ Len(other.probes) = 4 /\ other.outcome = "DEFAULT_404"
    /\ other.request.full_path # request.full_path
    /\ Len(probes) = 1

\* the last call of wipe_version names a version that exists / is made by
\* an admin of the version's project
WipeVersionExists ==
    /\ wipe.call.project_slug = project.slug
    /\ wipe.call.version_slug \in DOMAIN versions
    /\ versions[wipe.call.version_slug] # None
WipeByAdmin == wipe.call.project_slug \in wipe.call.user.admin_of

\* C19: wipe_version triggers the wipe, of the version it was called for,
\* only when the version exists, its project is among those the user
\* administers and the method is POST; a missing version or a non-admin
\* user ends in a 404 and a non-POST request of an admin renders the
\* confirmation page, without a wipe.
C19_WipeOnlyByAdminPost ==
    wipe.result # None =>
        /\ wipe.wiped # <<>> <=>
               WipeVersionExists /\ WipeByAdmin /\ wipe.call.method = "POST"
        /\ wipe.wiped # <<>> =>
               /\ wipe.wiped = <<[version_slug |-> wipe.call.version_slug,
                                  project_slug |-> wipe.call.project_slug]>>
               /\ wipe.result = "redirect"
        /\ ~WipeVersionExists \/ ~WipeByAdmin => wipe.result = "Http404"
        /\ WipeVersionExists /\ WipeByAdmin /\ wipe.call.method # "POST" =>
               wipe.result = "render"

C19_Witness ==
    /\ wipe.result = "redirect"
    /\ wipe.call.method = "POST" /\ WipeVersionExists /\ WipeByAdmin
    /\ wipe.wiped = <<[version_slug |-> "v1", project_slug |-> ProjectSlug]>>

====
